---- MODULE Spec2Model ----
(***************************************************************************)
(* Model of pkg/clients/aws/client.go: the License Client wrapping the     *)
(* Identity Service (STS) and the License Manager Service.                 *)
(*                                                                         *)
(* Go pointers are modelled as options: Nil is the nil pointer, Ptr(x) a   *)
(* pointer to x.  A Go error value is an option too: Nil is the nil error. *)
(* Text built by fmt.Errorf is a sequence of fragments, so that "the       *)
(* message contains the message of another error" is a checkable relation. *)
(* Numeric strings (usage values, the checkout amount) are sequences of    *)
(* one-character strings, parsed and formatted digit by digit.             *)
(***************************************************************************)
EXTENDS Integers, Sequences, FiniteSets, TLC

VARIABLES
    client,        \* Nil before construction, Ptr([acctNum |-> s]) afterwards
    identity,      \* Nil, or Ptr of the GetCallerIdentity response NewClient saw
    pc,            \* position inside GetRancherLicense: "idle", "first", "second"
    frame,         \* locals of GetRancherLicense: license, err, license2, newErr
    calls,         \* remote calls issued by the current / most recent operation
    ret,           \* what the most recent operation handed back to its caller
    issuedTokens   \* ClientToken of every CheckoutLicense request ever issued

vars == <<client, identity, pc, frame, calls, ret, issuedTokens>>

-----------------------------------------------------------------------------
(* Bounds of the model *)

MaxCheckouts == 2
MaxUsages == 2
MaxEntitlements == 2
MaxListed == 1

-----------------------------------------------------------------------------
(* Pointers, errors, sequences *)

Nil == <<>>
Ptr(x) == <<x>>
Deref(p) == p[1]

\* err.Error(): the message of a non-nil error, as fragments
Error(err) == Deref(err).msg

\* fmt.Errorf / errors.New: a fresh error carrying the formatted text
Errorf(parts) == Ptr([kind |-> "errorString", msg |-> parts])

\* every sequence over S of length at most n
SeqsUpTo(S, n) == UNION {[1..k -> S] : k \in 0..n}

-----------------------------------------------------------------------------
(* Package constants *)

productSKUField == "ProductSKU"
rancherProductSKUNonEmea == "0b87d4fa-d1fe-41d8-830b-67d4ec381549"
rancherProductSKUEmea == "a303097d-1dc2-4548-8ea6-f46bb9842e21"
maxResults == 1
entitlementDimension == "RKE_NODE_SUPP"
entitlementUnit == "Count"
CheckoutTypeProvisional == "PROVISIONAL"

-----------------------------------------------------------------------------
(* What the remote services and the callers can supply *)

\* errors returned by the vendor SDK
ServiceErrors ==
    { Ptr([kind |-> "service", msg |-> <<"AccessDeniedException">>]),
      Ptr([kind |-> "service", msg |-> <<"RateLimitExceededException">>]) }

ConfigErrors == { Ptr([kind |-> "config", msg |-> <<"failed to load config">>]) }

\* sts.GetCallerIdentityOutput.Account is *string
Accounts == { Nil, Ptr(""), Ptr("111122223333"), Ptr("444455556666") }

\* (out, err) pairs of GetCallerIdentity
IdentityResponses ==
    { [out |-> Ptr([Account |-> a]), err |-> Nil] : a \in Accounts }
    \cup { [out |-> Nil, err |-> e] : e \in ServiceErrors }

Arns == { Nil, Ptr("arn:aws:license-manager::1:license:l-1") }
Fingerprints == { Nil, Ptr("aws:294406891311:AWS/Marketplace:issuer-fingerprint") }
Issuers == { Nil } \cup { Ptr([KeyFingerprint |-> f]) : f \in Fingerprints }

\* types.Entitlement: Name *string, MaxCount *int64 (both present, per the data model)
EntitlementDefs ==
    { [Name |-> Ptr(entitlementDimension), MaxCount |-> Ptr(1)],
      [Name |-> Ptr(entitlementDimension), MaxCount |-> Ptr(100)],
      [Name |-> Ptr("OTHER_DIMENSION"), MaxCount |-> Ptr(7)] }

\* types.GrantedLicense, the fields the client reads or writes
GrantedLicense(arn, sku, issuer, ents) ==
    [LicenseArn |-> arn, ProductSKU |-> sku, Issuer |-> issuer, Entitlements |-> ents]

-----------------------------------------------------------------------------
(* NewClient, getAccountNumber, AccountNumber *)

\* getAccountNumber testing the account for nil only, not for the empty string
getAccountNumberNilOnly(out, err) ==
    IF err # Nil THEN [val |-> "", err |-> err]
    ELSE IF Deref(out).Account = Nil
         THEN [val |-> "", err |-> Errorf(<<"account number empty in aws sts response">>)]
         ELSE [val |-> Deref(Deref(out).Account), err |-> Nil]

\* getAccountNumber with the identity lookup answering (out, err)
getAccountNumber(out, err) ==
    IF err # Nil THEN [val |-> "", err |-> err]
    ELSE IF Deref(out).Account = Nil \/ Deref(out).Account = Ptr("")
         THEN [val |-> "", err |-> Errorf(<<"account number empty in aws sts response">>)]
         ELSE [val |-> Deref(Deref(out).Account), err |-> Nil]

AccountNumber == Deref(client).acctNum

GetCallerIdentityCall(resp) ==
    [api |-> "GetCallerIdentity", req |-> Nil, out |-> resp.out, err |-> resp.err]

NewClient ==
    /\ pc = "idle"
    /\ client = Nil
    /\ \E cfgErr \in ConfigErrors \cup {Nil}, resp \in IdentityResponses :
        IF cfgErr # Nil
        THEN /\ ret' = [op |-> "NewClient", args |-> <<>>, outcome |-> "returned",
                        val |-> Nil, err |-> cfgErr]
             /\ calls' = <<>>
             /\ identity' = Nil
             /\ client' = Nil
        ELSE LET r == getAccountNumber(resp.out, resp.err) IN
             /\ calls' = <<GetCallerIdentityCall(resp)>>
             /\ identity' = Ptr(resp)
             /\ IF r.err # Nil
                THEN /\ client' = Nil
                     /\ ret' = [op |-> "NewClient", args |-> <<>>, outcome |-> "returned",
                                val |-> Nil, err |-> r.err]
                ELSE /\ client' = Ptr([acctNum |-> r.val])
                     /\ ret' = [op |-> "NewClient", args |-> <<>>, outcome |-> "returned",
                                val |-> Ptr([acctNum |-> r.val]), err |-> Nil]
    /\ UNCHANGED <<pc, frame, issuedTokens>>

-----------------------------------------------------------------------------
(* GetRancherLicense, getLicenseForProductID *)

\* licenses the list endpoint may hand back
ListedLicenses ==
    { GrantedLicense(a, s, Nil, <<>>) :
        a \in { Ptr("arn:aws:license-manager::1:license:l-1"),
                Ptr("arn:aws:license-manager::1:license:l-2") },
        s \in { Nil, Ptr(rancherProductSKUNonEmea), Ptr(rancherProductSKUEmea) } }

\* (out, err) pairs of ListReceivedLicenses
ListResponses ==
    { [out |-> Ptr([Licenses |-> ls]), err |-> Nil] : ls \in SeqsUpTo(ListedLicenses, MaxListed) }
    \cup { [out |-> Nil, err |-> e] : e \in ServiceErrors }

ListReceivedLicensesInput(productID) ==
    [Filters |-> <<[Name |-> Ptr(productSKUField), Values |-> <<productID>>]>>,
     MaxResults |-> Ptr(maxResults)]

ListReceivedLicensesCall(productID, resp) ==
    [api |-> "ListReceivedLicenses", req |-> ListReceivedLicensesInput(productID),
     out |-> resp.out, err |-> resp.err]

\* getLicenseForProductID with the list call answering (res, err)
getLicenseForProductID(productID, res, err) ==
    IF err # Nil THEN [val |-> Nil, err |-> err]
    ELSE IF Len(Deref(res).Licenses) = 0
         THEN [val |-> Nil,
               err |-> Errorf(<<"unable to find license for product id ", productID>>)]
         ELSE LET license == Deref(res).Licenses[1] IN
              [val |-> Ptr(IF license.ProductSKU = Nil
                           THEN [license EXCEPT !.ProductSKU = Ptr(productID)]
                           ELSE license),
               err |-> Nil]

EmptyFrame == [license |-> Nil, err |-> Nil, license2 |-> Nil, newErr |-> Nil]

\* line 102: the lookup under the non-EMEA SKU
GetRancherLicenseFirst ==
    /\ pc = "idle"
    /\ client # Nil
    /\ \E resp \in ListResponses :
        LET r == getLicenseForProductID(rancherProductSKUNonEmea, resp.out, resp.err) IN
        /\ calls' = <<ListReceivedLicensesCall(rancherProductSKUNonEmea, resp)>>
        /\ frame' = [EmptyFrame EXCEPT !.license = r.val, !.err = r.err]
    /\ pc' = "first"
    /\ ret' = [op |-> "GetRancherLicense", args |-> <<>>, outcome |-> "running",
               val |-> Nil, err |-> Nil]
    /\ UNCHANGED <<client, identity, issuedTokens>>

\* the EMEA lookup issued whatever the first lookup gave
GetRancherLicenseSecondAlways ==
    /\ pc = "first"
    /\ \E resp \in ListResponses :
        LET r == getLicenseForProductID(rancherProductSKUEmea, resp.out, resp.err) IN
        /\ calls' = Append(calls, ListReceivedLicensesCall(rancherProductSKUEmea, resp))
        /\ frame' = [frame EXCEPT !.license2 = r.val, !.newErr = r.err]
    /\ pc' = "second"
    /\ UNCHANGED <<client, identity, ret, issuedTokens>>

\* lines 103-105: the first lookup failed, look up under the EMEA SKU
GetRancherLicenseSecond ==
    /\ pc = "first"
    /\ frame.err # Nil
    /\ \E resp \in ListResponses :
        LET r == getLicenseForProductID(rancherProductSKUEmea, resp.out, resp.err) IN
        /\ calls' = Append(calls, ListReceivedLicensesCall(rancherProductSKUEmea, resp))
        /\ frame' = [frame EXCEPT !.license2 = r.val, !.newErr = r.err]
    /\ pc' = "second"
    /\ UNCHANGED <<client, identity, ret, issuedTokens>>

\* GetRancherLicense handing the first lookup's error back after the fallback
GetRancherLicenseResultFirstError(f, at) ==
    IF at = "first" THEN [val |-> f.license, err |-> Nil]
    ELSE [val |-> Nil, err |-> f.err]

\* GetRancherLicense reporting only the EMEA failure when both lookups fail
GetRancherLicenseResultLastError(f, at) ==
    IF at = "first" THEN [val |-> f.license, err |-> Nil]
    ELSE IF f.newErr # Nil
         THEN [val |-> Nil,
               err |-> Errorf(<<"unable to get license for emea: ">> \o Error(f.newErr))]
         ELSE [val |-> f.license2, err |-> Nil]

\* the value GetRancherLicense returns from the locals it holds
GetRancherLicenseResult(f, at) ==
    IF at = "first" THEN [val |-> f.license, err |-> Nil]
    ELSE IF f.newErr # Nil
         THEN [val |-> Nil,
               err |-> Errorf(<<"unable to get license for non-emea: ">> \o Error(f.err)
                              \o <<", unable to get license for emea: ">> \o Error(f.newErr))]
         ELSE [val |-> f.license2, err |-> Nil]

\* lines 106-111: return
GetRancherLicenseReturn ==
    /\ \/ pc = "first" /\ frame.err = Nil
       \/ pc = "second"
    /\ LET r == GetRancherLicenseResult(frame, pc) IN
       ret' = [op |-> "GetRancherLicense", args |-> <<>>, outcome |-> "returned",
               val |-> r.val, err |-> r.err]
    /\ pc' = "idle"
    /\ UNCHANGED <<client, identity, frame, calls, issuedTokens>>

-----------------------------------------------------------------------------
(* Decimal text: fmt.Sprintf("%d", n) and strconv.Atoi *)

Digits == <<"0", "1", "2", "3", "4", "5", "6", "7", "8", "9">>

RECURSIVE FormatNat(_)
FormatNat(n) ==
    IF n < 10 THEN <<Digits[n + 1]>>
    ELSE FormatNat(n \div 10) \o <<Digits[(n % 10) + 1]>>

\* fmt.Sprintf("%d", n)
SprintfD(n) == IF n < 0 THEN <<"-">> \o FormatNat(-n) ELSE FormatNat(n)

IsDigit(c) == \E d \in 1..10 : Digits[d] = c
DigitVal(c) == (CHOOSE d \in 1..10 : Digits[d] = c) - 1

RECURSIVE ParseNat(_, _)
ParseNat(s, acc) ==
    IF s = <<>> THEN acc ELSE ParseNat(Tail(s), acc * 10 + DigitVal(Head(s)))

\* strconv.Atoi: an optional sign, then one or more decimal digits
Atoi(s) ==
    LET signed == s # <<>> /\ Head(s) \in {"-", "+"}
        body == IF signed THEN Tail(s) ELSE s
        syntaxErr == Ptr([kind |-> "NumError",
                          msg |-> <<"strconv.Atoi: parsing ">> \o s \o <<": invalid syntax">>])
    IN IF body = <<>> \/ \E i \in 1..Len(body) : ~IsDigit(body[i])
       THEN [val |-> 0, err |-> syntaxErr]
       ELSE [val |-> IF signed /\ Head(s) = "-" THEN -ParseNat(body, 0) ELSE ParseNat(body, 0),
             err |-> Nil]

-----------------------------------------------------------------------------
(* CheckoutRancherLicense *)

CheckoutLicenses ==
    { GrantedLicense(a, s, i, <<>>) :
        a \in Arns, s \in { Nil, Ptr(rancherProductSKUNonEmea) }, i \in Issuers }

Amounts == { -12, 0, 7, 105 }

ConsumptionTokens == { "", "consumption-token-A", "consumption-token-B" }

\* (out, err) pairs of CheckoutLicense
CheckoutResponses ==
    { [out |-> Ptr([LicenseConsumptionToken |-> Ptr("consumption-token-A")]), err |-> Nil] }
    \cup { [out |-> Nil, err |-> e] : e \in ServiceErrors }

\* a token generated once and used by every call
uuidNewOnce(issued) == <<"uuid", 1>>

\* uuid.New().String(): a value no earlier call of uuid.New has produced
uuidNew(issued) == <<"uuid", Len(issued) + 1>>

\* the precondition check without the inner test of the ARN
checkoutPreconditionOneError(l) ==
    IF l.Issuer = Nil \/ Deref(l.Issuer).KeyFingerprint = Nil
    THEN Errorf(<<"license is missing arn and KeyFingerprint/Issuer">>)
    ELSE Nil

\* lines 153-158: the error for a license that cannot be checked out, Nil if it can
checkoutPrecondition(l) ==
    IF l.Issuer = Nil \/ Deref(l.Issuer).KeyFingerprint = Nil
    THEN IF l.LicenseArn = Nil
         THEN Errorf(<<"license is missing arn and KeyFingerprint/Issuer">>)
         ELSE Errorf(<<"license ", Deref(l.LicenseArn),
                       " must have a KeyFingerprint for checkout">>)
    ELSE Nil

\* lines 162-174: the request sent to CheckoutLicense
CheckoutLicenseInput(l, token, entitlementAmt) ==
    [CheckoutType |-> CheckoutTypeProvisional,
     ClientToken |-> Ptr(token),
     ProductSKU |-> l.ProductSKU,
     KeyFingerprint |-> Deref(l.Issuer).KeyFingerprint,
     Entitlements |-> <<[Name |-> Ptr(entitlementDimension),
                         Unit |-> entitlementUnit,
                         Value |-> Ptr(SprintfD(entitlementAmt))]>>]

CheckoutRancherLicense ==
    /\ pc = "idle"
    /\ client # Nil
    /\ \E l \in CheckoutLicenses, entitlementAmt \in Amounts, resp \in CheckoutResponses :
        LET pre == checkoutPrecondition(l)
            token == uuidNew(issuedTokens)
            args == <<l, entitlementAmt>>
        IN IF pre # Nil
           THEN /\ ret' = [op |-> "CheckoutRancherLicense", args |-> args,
                           outcome |-> "returned", val |-> Nil, err |-> pre]
                /\ calls' = <<>>
                /\ UNCHANGED issuedTokens
           ELSE /\ Len(issuedTokens) < MaxCheckouts
                /\ calls' = <<[api |-> "CheckoutLicense",
                               req |-> CheckoutLicenseInput(l, token, entitlementAmt),
                               out |-> resp.out, err |-> resp.err]>>
                /\ issuedTokens' = Append(issuedTokens, token)
                /\ ret' = [op |-> "CheckoutRancherLicense", args |-> args,
                           outcome |-> "returned",
                           val |-> IF resp.err # Nil THEN Nil ELSE resp.out,
                           err |-> resp.err]
    /\ UNCHANGED <<client, identity, pc, frame>>

-----------------------------------------------------------------------------
(* CheckInRancherLicense, ExtendRancherLicenseConsumptionToken *)

CheckInResponses ==
    { [out |-> Ptr([ResultMetadata |-> "check-in"]), err |-> Nil] }
    \cup { [out |-> Nil, err |-> e] : e \in ServiceErrors }

ExtendResponses ==
    { [out |-> Ptr([Expiration |-> Ptr(x), LicenseConsumptionToken |-> Ptr(t)]), err |-> Nil] :
        x \in { "2026-01-01T00:00:00" }, t \in { "consumption-token-A", "consumption-token-B" } }
    \cup { [out |-> Nil, err |-> e] : e \in ServiceErrors }

\* a forwarding operation that wraps the service's error
forwardWrapping(op, api, consumptionToken, resp) ==
    /\ calls' = <<[api |-> api,
                   req |-> [LicenseConsumptionToken |-> Ptr(consumptionToken)],
                   out |-> resp.out, err |-> resp.err]>>
    /\ ret' = [op |-> op, args |-> <<consumptionToken>>, outcome |-> "returned",
               val |-> IF resp.err # Nil THEN Nil ELSE resp.out,
               err |-> IF resp.err # Nil
                       THEN Errorf(<<"license manager call failed: ">> \o Error(resp.err))
                       ELSE Nil]

\* a forwarding operation: one call carrying the token, its answer handed back
forward(op, api, consumptionToken, resp) ==
    /\ calls' = <<[api |-> api,
                   req |-> [LicenseConsumptionToken |-> Ptr(consumptionToken)],
                   out |-> resp.out, err |-> resp.err]>>
    /\ ret' = [op |-> op, args |-> <<consumptionToken>>, outcome |-> "returned",
               val |-> IF resp.err # Nil THEN Nil ELSE resp.out,
               err |-> resp.err]

CheckInRancherLicense ==
    /\ pc = "idle"
    /\ client # Nil
    /\ \E consumptionToken \in ConsumptionTokens, resp \in CheckInResponses :
        forward("CheckInRancherLicense", "CheckInLicense", consumptionToken, resp)
    /\ UNCHANGED <<client, identity, pc, frame, issuedTokens>>

ExtendRancherLicenseConsumptionToken ==
    /\ pc = "idle"
    /\ client # Nil
    /\ \E consumptionToken \in ConsumptionTokens, resp \in ExtendResponses :
        forward("ExtendRancherLicenseConsumptionToken", "ExtendLicenseConsumption",
                consumptionToken, resp)
    /\ UNCHANGED <<client, identity, pc, frame, issuedTokens>>

-----------------------------------------------------------------------------
(* GetNumberOfAvailableEntitlements, getMaxRKEEntitlements *)

\* consumed values the usage endpoint may report for the node dimension
ConsumedValues ==
    { <<"3", "0">>, <<"2", "0">>, <<"0", "8">>, <<"-", "5">>, <<"+", "7">>,
      <<"2", "x">>, <<"-">>, <<>> }

\* types.EntitlementUsage: Name *string, ConsumedValue *string
UsageRecords ==
    { [Name |-> Ptr(entitlementDimension), ConsumedValue |-> Ptr(v)] : v \in ConsumedValues }
    \cup { [Name |-> Ptr("OTHER_DIMENSION"), ConsumedValue |-> Ptr(v)] :
            v \in { <<"4">>, <<"n", "/", "a">> } }

UsageOutput(us) == Ptr([LicenseUsage |-> Ptr([EntitlementUsages |-> us])])

\* (out, err) pairs of GetLicenseUsage
UsageResponses ==
    { [out |-> UsageOutput(us), err |-> Nil] : us \in SeqsUpTo(UsageRecords, MaxUsages) }
    \cup { [out |-> Nil, err |-> e] : e \in ServiceErrors }

UsageLicenses ==
    { GrantedLicense(a, Ptr(rancherProductSKUNonEmea), Nil, es) :
        a \in Arns, es \in SeqsUpTo(EntitlementDefs, MaxEntitlements) }

\* the inputs the full lifecycle draws from
FewUsageResponses ==
    { [out |-> UsageOutput(us), err |-> Nil] :
        us \in { <<>>,
                 <<[Name |-> Ptr(entitlementDimension), ConsumedValue |-> Ptr(<<"3", "0">>)],
                   [Name |-> Ptr(entitlementDimension), ConsumedValue |-> Ptr(<<"2", "0">>)]>>,
                 <<[Name |-> Ptr(entitlementDimension), ConsumedValue |-> Ptr(<<"2", "x">>)]>> } }
    \cup { [out |-> Nil, err |-> e] : e \in ServiceErrors }

FewUsageLicenses ==
    { GrantedLicense(a, Ptr(rancherProductSKUNonEmea), Nil, es) :
        a \in Arns,
        es \in { <<>>, <<[Name |-> Ptr(entitlementDimension), MaxCount |-> Ptr(100)]>> } }

Panicked == [outcome |-> "panicked", val |-> 0, err |-> Nil]
Returned(v, e) == [outcome |-> "returned", val |-> v, err |-> e]

\* lines 224-228: the first entitlement named RKE_NODE_SUPP, Nil if there is none
RECURSIVE firstRKEEntitlement(_)
firstRKEEntitlement(ents) ==
    IF ents = <<>> THEN Nil
    ELSE IF Deref(Head(ents).Name) = entitlementDimension THEN Ptr(Head(ents))
    ELSE firstRKEEntitlement(Tail(ents))

\* getMaxRKEEntitlements; line 229 dereferences license.LicenseArn unchecked
getMaxRKEEntitlements(license) ==
    LET e == firstRKEEntitlement(license.Entitlements) IN
    IF e # Nil THEN Returned(Deref(Deref(e).MaxCount), Nil)
    ELSE IF license.LicenseArn = Nil THEN Panicked
    ELSE Returned(0, Errorf(<<"entitlement ", entitlementDimension,
                              " not found on license for ", Deref(license.LicenseArn)>>))

\* the loop leaving at the first record named RKE_NODE_SUPP
RECURSIVE consumedTotalFirstMatch(_, _)
consumedTotalFirstMatch(usages, acc) ==
    IF usages = <<>> THEN [val |-> acc, err |-> Nil]
    ELSE IF Deref(Head(usages).Name) = entitlementDimension
         THEN LET a == Atoi(Deref(Head(usages).ConsumedValue)) IN
              IF a.err # Nil THEN [val |-> 0, err |-> a.err]
              ELSE [val |-> acc + a.val, err |-> Nil]
         ELSE consumedTotalFirstMatch(Tail(usages), acc)

\* lines 209-218: the loop over the usage records, total so far in acc
RECURSIVE consumedTotal(_, _)
consumedTotal(usages, acc) ==
    IF usages = <<>> THEN [val |-> acc, err |-> Nil]
    ELSE IF Deref(Head(usages).Name) = entitlementDimension
         THEN LET a == Atoi(Deref(Head(usages).ConsumedValue)) IN
              IF a.err # Nil THEN [val |-> 0, err |-> a.err]
              ELSE consumedTotal(Tail(usages), acc + a.val)
         ELSE consumedTotal(Tail(usages), acc)

\* GetNumberOfAvailableEntitlements with the usage call answering (res, err)
availableEntitlements(license, res, err) ==
    IF err # Nil THEN Returned(0, err)
    ELSE LET m == getMaxRKEEntitlements(license) IN
         IF m.outcome = "panicked" THEN Panicked
         ELSE IF m.err # Nil THEN Returned(0, m.err)
         ELSE LET t == consumedTotal(Deref(Deref(res).LicenseUsage).EntitlementUsages, 0) IN
              IF t.err # Nil THEN Returned(0, t.err)
              ELSE Returned(m.val - t.val, Nil)

GetNumberOfAvailableEntitlements(licenses, responses) ==
    /\ pc = "idle"
    /\ client # Nil
    /\ \E license \in licenses, resp \in responses :
        LET r == availableEntitlements(license, resp.out, resp.err) IN
        /\ calls' = <<[api |-> "GetLicenseUsage",
                       req |-> [LicenseArn |-> license.LicenseArn],
                       out |-> resp.out, err |-> resp.err]>>
        /\ ret' = [op |-> "GetNumberOfAvailableEntitlements", args |-> <<license>>,
                   outcome |-> r.outcome, val |-> r.val, err |-> r.err]
    /\ UNCHANGED <<client, identity, pc, frame, issuedTokens>>

-----------------------------------------------------------------------------

Init ==
    /\ client = Nil
    /\ identity = Nil
    /\ pc = "idle"
    /\ frame = EmptyFrame
    /\ calls = <<>>
    /\ ret = [op |-> "none", args |-> <<>>, outcome |-> "returned", val |-> Nil, err |-> Nil]
    /\ issuedTokens = <<>>

Next ==
    \/ NewClient
    \/ GetRancherLicenseFirst
    \/ GetRancherLicenseSecond
    \/ GetRancherLicenseReturn
    \/ CheckoutRancherLicense
    \/ CheckInRancherLicense
    \/ ExtendRancherLicenseConsumptionToken
    \/ GetNumberOfAvailableEntitlements(FewUsageLicenses, FewUsageResponses)

Spec == Init /\ [][Next]_vars

\* a freshly constructed client whose first operation computes the available
\* entitlements, over the wide input space (the operation keeps no state, so one
\* invocation per behaviour covers every invocation)
InitUsage ==
    /\ client = Ptr([acctNum |-> "111122223333"])
    /\ identity = Ptr([out |-> Ptr([Account |-> Ptr("111122223333")]), err |-> Nil])
    /\ pc = "idle"
    /\ frame = EmptyFrame
    /\ calls = <<[api |-> "GetCallerIdentity", req |-> Nil,
                  out |-> Ptr([Account |-> Ptr("111122223333")]), err |-> Nil]>>
    /\ ret = [op |-> "NewClient", args |-> <<>>, outcome |-> "returned",
              val |-> Ptr([acctNum |-> "111122223333"]), err |-> Nil]
    /\ issuedTokens = <<>>

NextUsage ==
    /\ ret.op = "NewClient"
    /\ GetNumberOfAvailableEntitlements(UsageLicenses, UsageResponses)

SpecUsage == InitUsage /\ [][NextUsage]_vars

-----------------------------------------------------------------------------
(* Vocabulary of the properties *)

\* s occurs in t as a contiguous run of fragments
Contains(t, s) ==
    \E i \in 0..(Len(t) - Len(s)) : SubSeq(t, i + 1, i + Len(s)) = s

IsOp(name) == ret.op = name
HasReturned == ret.outcome = "returned"

\* a list call that found a license: no error and a non-empty list
LookupSucceeded(c) == c.err = Nil /\ Len(Deref(c.out).Licenses) > 0

\* the SKU a list call filtered on
QueriedSKU(c) == c.req.Filters[1].Values[1]

\* the license a successful list call found, with an absent SKU filled in
FoundLicense(c) ==
    LET l == Deref(c.out).Licenses[1] IN
    GrantedLicense(l.LicenseArn,
                   IF l.ProductSKU = Nil THEN Ptr(QueriedSKU(c)) ELSE l.ProductSKU,
                   l.Issuer, l.Entitlements)

\* the message of the failure of a list call that found nothing
LookupFailure(c) ==
    IF c.err # Nil THEN Deref(c.err).msg
    ELSE <<"unable to find license for product id ", QueriedSKU(c)>>

HasFingerprint(l) == l.Issuer # Nil /\ Deref(l.Issuer).KeyFingerprint # Nil

DefinesDimension(l) ==
    \E i \in 1..Len(l.Entitlements) : l.Entitlements[i].Name = Ptr("RKE_NODE_SUPP")

\* maximum count of the first entitlement of l named RKE_NODE_SUPP
DimensionMax(l) ==
    LET i == CHOOSE j \in 1..Len(l.Entitlements) :
                 /\ l.Entitlements[j].Name = Ptr("RKE_NODE_SUPP")
                 /\ \A k \in 1..(j - 1) : l.Entitlements[k].Name # Ptr("RKE_NODE_SUPP")
    IN Deref(l.Entitlements[i].MaxCount)

ReportedUsages == Deref(Deref(calls[1].out).LicenseUsage).EntitlementUsages

Matching(us) == { i \in 1..Len(us) : us[i].Name = Ptr("RKE_NODE_SUPP") }

AllMatchingValid(us) == \A i \in Matching(us) : Atoi(Deref(us[i].ConsumedValue)).err = Nil

\* sum of the consumed values of the first n records named RKE_NODE_SUPP
RECURSIVE SumMatching(_, _)
SumMatching(us, n) ==
    IF n = 0 THEN 0
    ELSE SumMatching(us, n - 1)
         + (IF n \in Matching(us) THEN Atoi(Deref(us[n].ConsumedValue)).val ELSE 0)

\* s is the canonical decimal text of some integer: no "+", no leading zero, no "-0"
CanonicalDecimal(s) ==
    LET digits == IF s # <<>> /\ Head(s) = "-" THEN Tail(s) ELSE s IN
    /\ digits # <<>>
    /\ \A i \in 1..Len(digits) : IsDigit(digits[i])
    /\ Len(digits) > 1 => digits[1] # "0"
    /\ digits = <<"0">> => s = digits

-----------------------------------------------------------------------------
(* Properties *)

\* C1: GetRancherLicense issues its first ListReceivedLicenses call with the
\* non-EMEA SKU; it issues at most two list calls, the second one with the EMEA
\* SKU and only after the non-EMEA lookup failed; when the non-EMEA lookup
\* succeeds the operation returns that license having issued no EMEA lookup.
C1_NonEmeaFirstAtMostTwoCalls ==
    IsOp("GetRancherLicense") =>
        /\ Len(calls) \in {1, 2}
        /\ \A i \in 1..Len(calls) :
              /\ calls[i].api = "ListReceivedLicenses"
              /\ Len(calls[i].req.Filters) = 1
              /\ calls[i].req.Filters[1].Name = Ptr("ProductSKU")
              /\ Len(calls[i].req.Filters[1].Values) = 1
        /\ QueriedSKU(calls[1]) = "0b87d4fa-d1fe-41d8-830b-67d4ec381549"
        /\ Len(calls) = 2 =>
              /\ QueriedSKU(calls[2]) = "a303097d-1dc2-4548-8ea6-f46bb9842e21"
              /\ ~LookupSucceeded(calls[1])
        /\ (HasReturned /\ LookupSucceeded(calls[1])) =>
              /\ Len(calls) = 1
              /\ ret.err = Nil
              /\ ret.val = Ptr(FoundLicense(calls[1]))

C1_Witness ==
    /\ IsOp("GetRancherLicense") /\ HasReturned
    /\ Len(calls) = 1 /\ LookupSucceeded(calls[1])
    /\ ret.val # Nil

\* C2: when the non-EMEA lookup fails (service error or empty list) and the EMEA
\* lookup finds a license, GetRancherLicense returns the EMEA license and a nil
\* error.
C2_EmeaFallbackReturnsLicense ==
    (/\ IsOp("GetRancherLicense") /\ HasReturned
     /\ ~LookupSucceeded(calls[1])) =>
        /\ Len(calls) = 2
        /\ LookupSucceeded(calls[2]) =>
              /\ ret.err = Nil
              /\ ret.val = Ptr(FoundLicense(calls[2]))
              /\ Deref(ret.val).ProductSKU # Nil

C2_Witness ==
    /\ IsOp("GetRancherLicense") /\ HasReturned
    /\ Len(calls) = 2
    /\ calls[1].err # Nil
    /\ LookupSucceeded(calls[2])
    /\ ret.val # Nil /\ ret.err = Nil

\* C3: when both lookups fail GetRancherLicense returns no license and one error
\* whose message contains the message of the non-EMEA failure and the message of
\* the EMEA failure; it returns either a license or an error, never both, never
\* neither.
C3_BothFailCombinedError ==
    (IsOp("GetRancherLicense") /\ HasReturned) =>
        /\ (ret.val = Nil) # (ret.err = Nil)
        /\ (Len(calls) = 2 /\ ~LookupSucceeded(calls[1]) /\ ~LookupSucceeded(calls[2])) =>
              /\ ret.val = Nil
              /\ ret.err # Nil
              /\ Contains(Error(ret.err), LookupFailure(calls[1]))
              /\ Contains(Error(ret.err), LookupFailure(calls[2]))

C3_Witness ==
    /\ IsOp("GetRancherLicense") /\ HasReturned
    /\ Len(calls) = 2
    /\ calls[1].err = Nil /\ ~LookupSucceeded(calls[1])
    /\ calls[2].err # Nil
    /\ ret.err # Nil

\* C4: CheckoutRancherLicense on a license without issuer or key fingerprint
\* issues no CheckoutLicense call and fails, with the "missing arn and
\* KeyFingerprint/Issuer" error exactly when the ARN is absent too and the
\* "license {arn} must have a KeyFingerprint" error exactly when the ARN is
\* present; with a fingerprint it issues the call, ARN or no ARN.
C4_MissingFingerprintErrors ==
    IsOp("CheckoutRancherLicense") =>
        LET l == ret.args[1] IN
        /\ ~HasFingerprint(l) =>
              /\ calls = <<>>
              /\ ret.val = Nil
              /\ ret.err # Nil
              /\ (l.LicenseArn = Nil) <=>
                    (Error(ret.err) = <<"license is missing arn and KeyFingerprint/Issuer">>)
              /\ (l.LicenseArn # Nil) <=>
                    (/\ Len(Error(ret.err)) = 3
                     /\ Error(ret.err)[1] = "license "
                     /\ Ptr(Error(ret.err)[2]) = l.LicenseArn
                     /\ Error(ret.err)[3] = " must have a KeyFingerprint for checkout")
        /\ HasFingerprint(l) =>
              /\ Len(calls) = 1
              /\ calls[1].api = "CheckoutLicense"

C4_Witness ==
    /\ IsOp("CheckoutRancherLicense")
    /\ ret.args[1].Issuer # Nil
    /\ ~HasFingerprint(ret.args[1])
    /\ ret.args[1].LicenseArn # Nil
    /\ ret.err # Nil

\* C5: every CheckoutLicense request issued for amount N has checkout type
\* provisional, exactly one entitlement named RKE_NODE_SUPP with unit Count and
\* the decimal text of N as value, the license's product SKU and key
\* fingerprint, and a client token that no other checkout request carries.
C5_CheckoutRequestShape ==
    /\ \A i, j \in 1..Len(issuedTokens) : i # j => issuedTokens[i] # issuedTokens[j]
    /\ (IsOp("CheckoutRancherLicense") /\ calls # <<>>) =>
        LET req == calls[1].req
            l == ret.args[1]
            n == ret.args[2]
        IN /\ req.CheckoutType = "PROVISIONAL"
           /\ Len(req.Entitlements) = 1
           /\ req.Entitlements[1].Name = Ptr("RKE_NODE_SUPP")
           /\ req.Entitlements[1].Unit = "Count"
           /\ req.Entitlements[1].Value # Nil
           /\ CanonicalDecimal(Deref(req.Entitlements[1].Value))
           /\ Atoi(Deref(req.Entitlements[1].Value)) = [val |-> n, err |-> Nil]
           /\ req.ProductSKU = l.ProductSKU
           /\ req.KeyFingerprint = Deref(l.Issuer).KeyFingerprint
           /\ req.ClientToken # Nil
           /\ Deref(req.ClientToken) = issuedTokens[Len(issuedTokens)]

C5_Witness ==
    /\ IsOp("CheckoutRancherLicense") /\ calls # <<>>
    /\ Len(issuedTokens) = 2
    /\ ret.args[2] = -12
    /\ Deref(calls[1].req.Entitlements[1].Value) = <<"-", "1", "2">>

\* C6: when the usage call succeeds, the license defines RKE_NODE_SUPP and the
\* consumed values of the records named RKE_NODE_SUPP are integers,
\* GetNumberOfAvailableEntitlements returns the maximum count minus the sum of
\* all those values, unclamped, records of other names ignored.
C6_MaxMinusConsumed ==
    (/\ IsOp("GetNumberOfAvailableEntitlements")
     /\ calls[1].err = Nil
     /\ DefinesDimension(ret.args[1])
     /\ AllMatchingValid(ReportedUsages)) =>
        /\ HasReturned
        /\ ret.err = Nil
        /\ ret.val = DimensionMax(ret.args[1])
                     - SumMatching(ReportedUsages, Len(ReportedUsages))

C6_Witness ==
    /\ IsOp("GetNumberOfAvailableEntitlements") /\ HasReturned
    /\ calls[1].err = Nil
    /\ DefinesDimension(ret.args[1]) /\ DimensionMax(ret.args[1]) = 100
    /\ Len(ReportedUsages) = 2
    /\ Deref(ReportedUsages[1].ConsumedValue) = <<"3", "0">>
    /\ Deref(ReportedUsages[2].ConsumedValue) = <<"2", "0">>
    /\ Matching(ReportedUsages) = {1, 2}
    /\ ret.val = 50 /\ ret.err = Nil

\* C6, the unclamped case: consumption above the maximum gives a negative result
C6_NegativeWitness ==
    /\ IsOp("GetNumberOfAvailableEntitlements") /\ HasReturned
    /\ ret.err = Nil /\ ret.val < 0

\* C7: for every license whose entitlement list lacks RKE_NODE_SUPP, ARN present
\* or absent, usage call succeeding or failing, GetNumberOfAvailableEntitlements
\* returns 0 and a non-nil error.
C7_MissingDimensionReturnsError ==
    (IsOp("GetNumberOfAvailableEntitlements") /\ ~DefinesDimension(ret.args[1])) =>
        /\ HasReturned
        /\ ret.val = 0
        /\ ret.err # Nil

\* C8: if a usage record named RKE_NODE_SUPP has a consumed value that is not an
\* integer, GetNumberOfAvailableEntitlements returns 0 and a non-nil error,
\* wherever the record sits in the usage list.
C8_InvalidUsageReturnsError ==
    (/\ IsOp("GetNumberOfAvailableEntitlements")
     /\ calls[1].err = Nil
     /\ ~AllMatchingValid(ReportedUsages)) =>
        /\ HasReturned
        /\ ret.val = 0
        /\ ret.err # Nil

\* C8 outside the case of C7: with the license defining RKE_NODE_SUPP or carrying
\* an ARN, an invalid consumed value gives 0 and a non-nil error.
C8_InvalidUsageWithArnOrDimension ==
    (/\ IsOp("GetNumberOfAvailableEntitlements")
     /\ calls[1].err = Nil
     /\ ~AllMatchingValid(ReportedUsages)
     /\ (DefinesDimension(ret.args[1]) \/ ret.args[1].LicenseArn # Nil)) =>
        /\ HasReturned
        /\ ret.val = 0
        /\ ret.err # Nil

\* C9: a client exists only if the identity lookup answered without error and
\* with a present, non-empty account; construction returns a client or an error,
\* never both; and whatever operations ran since, AccountNumber() is that account.
C9_AccountNumberFixed ==
    /\ client # Nil =>
          /\ identity # Nil
          /\ Deref(identity).err = Nil
          /\ Deref(Deref(identity).out).Account \notin {Nil, Ptr("")}
          /\ AccountNumber = Deref(Deref(Deref(identity).out).Account)
    /\ IsOp("NewClient") =>
          /\ HasReturned
          /\ (ret.val = Nil) # (ret.err = Nil)
          /\ ret.val = client
          /\ (\/ identity = Nil
              \/ Deref(identity).err # Nil
              \/ Deref(Deref(identity).out).Account \in {Nil, Ptr("")}) => ret.val = Nil

C9_Witness ==
    /\ client # Nil
    /\ AccountNumber = "444455556666"
    /\ IsOp("GetNumberOfAvailableEntitlements")
    /\ ret.outcome = "panicked"
    /\ Len(issuedTokens) > 0

\* C10: CheckInRancherLicense, ExtendRancherLicenseConsumptionToken,
\* CheckoutRancherLicense with a fingerprint and GetNumberOfAvailableEntitlements
\* each issue exactly one License Manager call; when it fails the operation
\* returns that very error and no result; check-in and extend send the caller's
\* token as given and return a successful answer as received.
C10_SingleCallNoRetry ==
    /\ (IsOp("CheckInRancherLicense") \/ IsOp("ExtendRancherLicenseConsumptionToken")) =>
          /\ Len(calls) = 1
          /\ calls[1].api = (IF IsOp("CheckInRancherLicense")
                             THEN "CheckInLicense" ELSE "ExtendLicenseConsumption")
          /\ calls[1].req.LicenseConsumptionToken = Ptr(ret.args[1])
          /\ HasReturned
          /\ ret.err = calls[1].err
          /\ ret.val = (IF calls[1].err # Nil THEN Nil ELSE calls[1].out)
    /\ (IsOp("CheckoutRancherLicense") /\ HasFingerprint(ret.args[1])) =>
          /\ Len(calls) = 1
          /\ calls[1].api = "CheckoutLicense"
          /\ calls[1].err # Nil => (ret.err = calls[1].err /\ ret.val = Nil)
    /\ IsOp("GetNumberOfAvailableEntitlements") =>
          /\ Len(calls) = 1
          /\ calls[1].api = "GetLicenseUsage"
          /\ calls[1].err # Nil =>
                (HasReturned /\ ret.err = calls[1].err /\ ret.val = 0)

C10_Witness ==
    /\ IsOp("ExtendRancherLicenseConsumptionToken")
    /\ calls[1].err # Nil
    /\ ret.err = calls[1].err
    /\ ret.args[1] = "consumption-token-B"

====
